---- MODULE Spec2Model ----
(***************************************************************************)
(* WebVTT streaming parser (packager/media/formats/webvtt/webvtt_parser.cc) *)
(* A byte is a one-character string, a line is a sequence of bytes, a      *)
(* block is a sequence of lines.                                           *)
(***************************************************************************)
EXTENDS Integers, Sequences, FiniteSets, TLC

VARIABLES
  buffer,                  \* reader_: bytes pushed and not yet consumed
  flushed,                 \* reader_: Flush() has been called
  initialized_,            \* WebVttParser::initialized_
  saw_cue_,                \* WebVttParser::saw_cue_
  stream_info_dispatched_, \* WebVttParser::stream_info_dispatched_
  style_region_config_,    \* WebVttParser::style_region_config_
  emitted,                 \* calls made to init_cb_ and new_text_sample_cb_, in order
  ret,                     \* return value of the last Parse / Flush call
  lastBlocks,              \* history: the blocks the last call took from reader_
                           \* (<<>> again once the caller takes up new input)
  pending,                 \* input bytes the caller holds and has not pushed yet
  doc,                     \* the whole document of a chunked run (<<>> otherwise)
  styleBlocks,             \* history: STYLE/REGION blocks delivered before any cue
  cueArrived,              \* history: a block with a valid cue timing was delivered
  rejectNth,               \* chunked run: the sink rejects its rejectNth-th sample (0: none)
  decryption_key_source,   \* the caller passes a key source to WebVttParser::Init
  phase,                   \* "constructed", "ready" once Init returned, "aborted"
  time_token,              \* the token handed to WebVttTimestampToMs
  time_ms,                 \* what WebVttTimestampToMs answered for it
  file_mode_,              \* HttpFile::file_mode_
  task_exit_event_,        \* HttpFile::task_exit_event_ is signaled
  cache_,                  \* HttpFile::cache_: bytes held, and whether it is closed
  caller,                  \* where the thread that owns the HttpFile is
  task,                    \* where the worker-pool task running CurlPut is
  alive,                   \* the HttpFile object has not been deleted
  open_ret,                \* what HttpFile::Open returned
  put_requests,            \* PUT requests issued for the file
  used_after_delete        \* the upload task touched the object after delete this

vars == <<buffer, flushed, initialized_, saw_cue_, stream_info_dispatched_,
          style_region_config_, emitted, ret, lastBlocks, pending,
          doc, styleBlocks, cueArrived, rejectNth, decryption_key_source, phase,
          time_token, time_ms, file_mode_, task_exit_event_, cache_, caller,
          task, alive, open_ret, put_requests, used_after_delete>>

parserVars == <<buffer, flushed, initialized_, saw_cue_, stream_info_dispatched_,
                style_region_config_, emitted, ret, lastBlocks, pending,
                doc, styleBlocks, cueArrived, rejectNth, decryption_key_source, phase>>

timeVars == <<time_token, time_ms>>

httpVars == <<file_mode_, task_exit_event_, cache_, caller, task, alive,
              open_ret, put_requests, used_after_delete>>

\* no timestamp has been handed over
NoTime == [ok |-> FALSE, hi |-> 0 - 1, lo |-> 0 - 1]

TimeIdle == time_token = <<>> /\ time_ms = NoTime

\* HttpFile::HttpFile(file_name, mode, https)
HttpFile(mode) ==
  /\ file_mode_ = mode
  /\ task_exit_event_ = FALSE
  /\ cache_ = [bytes |-> 0, closed |-> FALSE]
  /\ caller = "constructed"
  /\ task = "none"
  /\ alive = TRUE
  /\ open_ret = "none"
  /\ put_requests = 0
  /\ used_after_delete = FALSE

-----------------------------------------------------------------------------
(* Bytes *)

LF == "\n"
CR == "\r"
SP == " "
TAB == "\t"

\* base::kWhitespaceASCII
WhitespaceASCII == {SP, TAB, LF, CR, "\f", "VT"}

Digits == {"0", "1", "2", "3", "4", "5", "6", "7", "8", "9"}

DigitVal(c) ==
  CASE c = "0" -> 0 [] c = "1" -> 1 [] c = "2" -> 2 [] c = "3" -> 3
    [] c = "4" -> 4 [] c = "5" -> 5 [] c = "6" -> 6 [] c = "7" -> 7
    [] c = "8" -> 8 [] c = "9" -> 9

kArrow == <<"-", "-", ">">>
kWebVtt == <<"W", "E", "B", "V", "T", "T">>
kBomWebVtt == <<"xEF", "xBB", "xBF">> \o kWebVtt
kNote == <<"N", "O", "T", "E">>
kStyle == <<"S", "T", "Y", "L", "E">>
kRegion == <<"R", "E", "G", "I", "O", "N">>

-----------------------------------------------------------------------------
(* String helpers of base/strings used by the parser *)

Drop(s, n) == SubSeq(s, n + 1, Len(s))
Take(s, n) == SubSeq(s, 1, n)

\* base::StartsWith(line, prefix, SENSITIVE)
StartsWith(line, prefix) ==
  Len(line) >= Len(prefix) /\ Take(line, Len(prefix)) = prefix

\* line.find(needle) != std::string::npos
Contains(line, needle) ==
  \E i \in 1..(Len(line) - Len(needle) + 1) :
    SubSeq(line, i, i + Len(needle) - 1) = needle

\* base::TrimWhitespaceASCII(line, base::TRIM_TRAILING)
TrimTrailing(line) ==
  LET keep == {i \in 1..Len(line) : line[i] \notin WhitespaceASCII}
      last == IF keep = {} THEN 0 ELSE CHOOSE i \in keep : \A j \in keep : j <= i
  IN  Take(line, last)

\* TRIM_WHITESPACE of base::SplitString: both ends
TrimBoth(line) ==
  LET keep == {i \in 1..Len(line) : line[i] \notin WhitespaceASCII}
      first == IF keep = {} THEN 1 ELSE CHOOSE i \in keep : \A j \in keep : i <= j
      last == IF keep = {} THEN 0 ELSE CHOOSE i \in keep : \A j \in keep : j <= i
  IN  SubSeq(line, first, last)

\* the pieces of line between occurrences of the separator byte
RECURSIVE SplitOn(_, _)
SplitOn(line, sep) ==
  LET at == {i \in 1..Len(line) : line[i] = sep}
  IN  IF at = {} THEN <<line>>
      ELSE LET i == CHOOSE k \in at : \A j \in at : k <= j
           IN  <<Take(line, i - 1)>> \o SplitOn(Drop(line, i), sep)

\* base::SplitString(line, " ", base::TRIM_WHITESPACE, base::SPLIT_WANT_NONEMPTY)
SplitString(line) ==
  LET pieces == SplitOn(line, SP)
      trimmed == [i \in 1..Len(pieces) |-> TrimBoth(pieces[i])]
  IN  SelectSeq(trimmed, LAMBDA p : p # <<>>)

\* base::JoinString(parts, sep)
RECURSIVE JoinString(_, _)
JoinString(parts, sep) ==
  IF parts = <<>> THEN <<>>
  ELSE IF Len(parts) = 1 THEN parts[1]
  ELSE parts[1] \o sep \o JoinString(Tail(parts), sep)

-----------------------------------------------------------------------------
(* Timestamps: WebVttTimestampToMs, [HH:]MM:SS.mmm *)

AllDigits(t) == \A i \in 1..Len(t) : t[i] \in Digits

RECURSIVE DecimalValue(_)
DecimalValue(t) ==
  IF t = <<>> THEN 0
  ELSE DecimalValue(Take(t, Len(t) - 1)) * 10 + DigitVal(t[Len(t)])

\* the shape test of WebVttTimestampToMs
TimestampOk(t) ==
  LET n == Len(t)
  IN  /\ n >= 9
      /\ t[n - 3] = "."
      /\ AllDigits(SubSeq(t, n - 2, n))
      /\ t[n - 6] = ":"
      /\ AllDigits(SubSeq(t, n - 5, n - 4))
      /\ AllDigits(SubSeq(t, n - 8, n - 7))
      /\ DecimalValue(SubSeq(t, n - 5, n - 4)) <= 59
      /\ DecimalValue(SubSeq(t, n - 8, n - 7)) <= 59
      /\ \/ n = 9
         \/ /\ n >= 12
            /\ t[n - 9] = ":"
            /\ AllDigits(Take(t, n - 10))

\* the value WebVttTimestampToMs stores through its out parameter
TimestampMs(t) ==
  LET n == Len(t)
      hh == IF n = 9 THEN 0 ELSE DecimalValue(Take(t, n - 10))
      mm == DecimalValue(SubSeq(t, n - 8, n - 7))
      ss == DecimalValue(SubSeq(t, n - 5, n - 4))
      ms == DecimalValue(SubSeq(t, n - 2, n))
  IN  ((hh * 60 + mm) * 60 + ss) * 1000 + ms

\* the whole seconds and the milliseconds of an accepted token
TimestampSeconds(t) ==
  LET n == Len(t)
      hh == IF n = 9 THEN 0 ELSE DecimalValue(Take(t, n - 10))
      mm == DecimalValue(SubSeq(t, n - 8, n - 7))
      ss == DecimalValue(SubSeq(t, n - 5, n - 4))
  IN  (hh * 60 + mm) * 60 + ss

TimestampMillis(t) == DecimalValue(SubSeq(t, Len(t) - 2, Len(t)))

\* a millisecond count is kept as two limbs, hi * Limb + lo, because the
\* values of interest pass 2^31
Limb == 2^16

\* seconds * 1000 + millis, exactly
ToMs(seconds, millis) ==
  LET low == (seconds % Limb) * 1000 + millis
  IN  [hi |-> (seconds \div Limb) * 1000 + low \div Limb, lo |-> low % Limb]

\* the width of the variable that receives the milliseconds
kTimeBitsOfInt == 32 - 1

\* uint64_t start_time, uint64_t end_time
kTimeBits == 64

\* a value stored in an unsigned variable of that many bits (hi stays below
\* 2^31 for every token considered, so a width past 46 bits keeps it whole)
StoreUnsigned(v, bits) ==
  IF bits - 16 >= 31 THEN v ELSE [hi |-> v.hi % (2^(bits - 16)), lo |-> v.lo]

\* WebVttTimestampToMs(token, &time): whether it accepted, and *time
WebVttTimestampToMs(t) ==
  IF ~TimestampOk(t) THEN [ok |-> FALSE, hi |-> 0, lo |-> 0]
  ELSE LET v == StoreUnsigned(ToMs(TimestampSeconds(t), TimestampMillis(t)), kTimeBits)
       IN  [ok |-> TRUE, hi |-> v.hi, lo |-> v.lo]

-----------------------------------------------------------------------------
(* BlockReader reader_: PushData, Flush, Next *)

NoBlock(buf) == [ok |-> FALSE, block |-> <<>>, rest |-> buf]

\* a line without its trailing carriage return
StripCR(line) ==
  IF line # <<>> /\ line[Len(line)] = CR THEN Take(line, Len(line) - 1) ELSE line

FirstLF(buf, from) ==
  LET at == {i \in from..Len(buf) : buf[i] = LF}
  IN  IF at = {} THEN 0 ELSE CHOOSE i \in at : \A j \in at : i <= j

\* read lines from position `from`; acc holds the non-blank lines of the block so far
RECURSIVE ScanBlock(_, _, _, _)
ScanBlock(buf, from, acc, flush) ==
  LET j == FirstLF(buf, from)
  IN  IF j = 0
      THEN LET tail == StripCR(SubSeq(buf, from, Len(buf)))
               all == IF tail = <<>> THEN acc ELSE Append(acc, tail)
           IN  IF flush /\ all # <<>>
               THEN [ok |-> TRUE, block |-> all, rest |-> <<>>]
               ELSE NoBlock(buf)
      ELSE LET line == StripCR(SubSeq(buf, from, j - 1))
           IN  IF line = <<>>
               THEN IF acc # <<>>
                    THEN [ok |-> TRUE, block |-> acc, rest |-> Drop(buf, j)]
                    ELSE ScanBlock(buf, j + 1, acc, flush)
               ELSE ScanBlock(buf, j + 1, Append(acc, line), flush)

\* reader_.Next(&block)
ReaderNext(buf, flush) == ScanBlock(buf, 1, <<>>, flush)

-----------------------------------------------------------------------------
(* Classification helpers *)

\* IsLikelyNote knowing the bare word only
IsLikelyNoteExact(line) == line = kNote

IsLikelyNote(line) ==
  \/ line = kNote
  \/ StartsWith(line, kNote \o <<SP>>)
  \/ StartsWith(line, kNote \o <<TAB>>)

IsLikelyCueTiming(line) == Contains(line, kArrow)

MaybeCueId(line) == ~Contains(line, kArrow)

IsLikelyStyle(line) == TrimTrailing(line) = kStyle

IsLikelyRegion(line) == TrimTrailing(line) = kRegion

\* UpdateConfig separating the blocks by a line feed only
UpdateConfigOneNewline(block, config) ==
  (IF config # <<>> THEN config \o <<LF>> ELSE config) \o JoinString(block, <<LF>>)

\* UpdateConfig(block, &config)
UpdateConfig(block, config) ==
  (IF config # <<>> THEN config \o <<LF, LF>> ELSE config) \o JoinString(block, <<LF>>)

-----------------------------------------------------------------------------
(* Emissions *)

kStreamIndex == 0

\* init_cb_.Run(streams) with one TextStreamInfo carrying the config
InfoEmission(config) ==
  [kind |-> "info", config |-> config, stream |-> 0, id |-> <<>>, start |-> 0,
   end |-> 0, settings |-> <<>>, payload |-> <<>>, accepted |-> TRUE]

\* TextSample::AppendStyle over the tokens after the end time
RECURSIVE AppendStyles(_, _)
AppendStyles(settings, tokens) ==
  IF tokens = <<>> THEN settings
  ELSE AppendStyles((IF settings # <<>> THEN settings \o <<SP>> ELSE settings)
                      \o tokens[1], Tail(tokens))

\* TextSample::AppendPayload over the lines after the timing line
RECURSIVE AppendPayloads(_, _)
AppendPayloads(payload, lines) ==
  IF lines = <<>> THEN payload
  ELSE AppendPayloads((IF payload # <<>> THEN payload \o <<LF>> ELSE payload)
                        \o lines[1], Tail(lines))

\* the sample with the style tokens taken from the end time on
SampleEmissionFromEndTime(id, start, end, tokens, lines, accepted) ==
  [kind |-> "sample", config |-> <<>>, stream |-> kStreamIndex, id |-> id,
   start |-> start, end |-> end, settings |-> AppendStyles(<<>>, Drop(tokens, 2)),
   payload |-> AppendPayloads(<<>>, Tail(lines)), accepted |-> accepted]

\* new_text_sample_cb_.Run(kStreamIndex, sample)
SampleEmission(id, start, end, tokens, lines, accepted) ==
  [kind |-> "sample", config |-> <<>>, stream |-> kStreamIndex, id |-> id,
   start |-> start, end |-> end, settings |-> AppendStyles(<<>>, Drop(tokens, 3)),
   payload |-> AppendPayloads(<<>>, Tail(lines)), accepted |-> accepted]

-----------------------------------------------------------------------------
(* The parser.  A call works on a record st of the parser's fields:        *)
(*   st.nsink     sample-sink calls made so far in this call               *)
(*   st.rejectAt  the sample-sink call of this call that the sink rejects  *)
(*                (0: it accepts every one)                                *)

\* DispatchTextStreamInfo that forgets to set stream_info_dispatched_
DispatchTextStreamInfoNoFlag(st) ==
  [st EXCEPT !.emitted = Append(@, InfoEmission(st.style_region_config_))]

\* WebVttParser::DispatchTextStreamInfo
DispatchTextStreamInfo(st) ==
  [st EXCEPT !.stream_info_dispatched_ = TRUE,
             !.emitted = Append(@, InfoEmission(st.style_region_config_))]

\* parsed_time of WebVttParser::ParseCue
ParsedTime(tokens) ==
  /\ Len(tokens) >= 3
  /\ tokens[2] = kArrow
  /\ TimestampOk(tokens[1])
  /\ TimestampOk(tokens[3])

\* ParseCue dropping the answer of new_text_sample_cb_
ParseCueSampleIgnoresSink(st, sample) ==
  [st EXCEPT !.emitted = Append(@, sample),
             !.nsink = @ + 1,
             !.ret = TRUE]

\* ParseCue, the sample: built, handed to new_text_sample_cb_, its answer returned
ParseCueSample(st, sample) ==
  [st EXCEPT !.emitted = Append(@, sample),
             !.nsink = @ + 1,
             !.ret = sample.accepted]

\* ParseCue dropping only the cues that end before they start
ParseCueTimedStrict(st, id, lines, time_and_style, start_time, end_time) ==
  IF end_time < start_time
  THEN [st EXCEPT !.ret = TRUE]
  ELSE ParseCueSample(st, SampleEmission(id, start_time, end_time, time_and_style,
                                         lines, st.nsink + 1 # st.rejectAt))

\* ParseCue once the times are parsed and the stream info is dispatched
ParseCueTimed(st, id, lines, time_and_style, start_time, end_time) ==
  IF end_time <= start_time
  THEN [st EXCEPT !.ret = TRUE]
  ELSE ParseCueSample(st, SampleEmission(id, start_time, end_time, time_and_style,
                                         lines, st.nsink + 1 # st.rejectAt))

\* ParseCue dispatching the stream info only for a cue it hands to the sink
ParseCueTokensDispatchLate(st, id, lines, time_and_style) ==
  IF ~ParsedTime(time_and_style)
  THEN [st EXCEPT !.ret = FALSE]
  ELSE IF TimestampMs(time_and_style[3]) <= TimestampMs(time_and_style[1])
  THEN [st EXCEPT !.ret = TRUE]
  ELSE ParseCueTimed(IF ~st.stream_info_dispatched_
                     THEN DispatchTextStreamInfo(st) ELSE st,
                     id, lines, time_and_style,
                     TimestampMs(time_and_style[1]), TimestampMs(time_and_style[3]))

\* ParseCue dispatching the stream info after it handed the cue to the sink
ParseCueTokensSampleFirst(st, id, lines, time_and_style) ==
  IF ~ParsedTime(time_and_style)
  THEN [st EXCEPT !.ret = FALSE]
  ELSE LET r == ParseCueTimed(st, id, lines, time_and_style,
                              TimestampMs(time_and_style[1]),
                              TimestampMs(time_and_style[3]))
       IN  IF ~r.stream_info_dispatched_
           THEN [DispatchTextStreamInfo(r) EXCEPT !.ret = r.ret] ELSE r

\* ParseCue once the timing line is split
ParseCueTokens(st, id, lines, time_and_style) ==
  IF ~ParsedTime(time_and_style)
  THEN [st EXCEPT !.ret = FALSE]
  ELSE ParseCueTimed(IF ~st.stream_info_dispatched_
                     THEN DispatchTextStreamInfo(st) ELSE st,
                     id, lines, time_and_style,
                     TimestampMs(time_and_style[1]), TimestampMs(time_and_style[3]))

\* WebVttParser::ParseCue: the fields after the call, .ret its return value;
\* lines[1] is the timing line
ParseCue(st, id, lines) == ParseCueTokens(st, id, lines, SplitString(lines[1]))

\* WebVttParser::ParseCueWithNoId
ParseCueWithNoId(st, block) == ParseCue(st, <<>>, block)

\* ParseCueWithId handing the ID line to ParseCue as the timing line
ParseCueWithIdWholeBlock(st, block) == ParseCue(st, block[1], block)

\* WebVttParser::ParseCueWithId
ParseCueWithId(st, block) == ParseCue(st, block[1], Tail(block))

\* a STYLE or REGION block appended whether or not a cue was seen
ParseStyleOrRegionAlways(st, block) ==
  [st EXCEPT !.style_region_config_ = UpdateConfig(block, @), !.ret = TRUE]

\* ParseBlock, a STYLE or REGION block
ParseStyleOrRegion(st, block) ==
  IF st.saw_cue_
  THEN [st EXCEPT !.ret = TRUE]
  ELSE [st EXCEPT !.style_region_config_ = UpdateConfig(block, @), !.ret = TRUE]

\* ParseBlock, after a cue parser ran: its success marks the cue as seen
CueParsed(st) ==
  IF st.ret THEN [st EXCEPT !.saw_cue_ = TRUE] ELSE st

\* ParseBlock passing over a block it cannot classify
ParseNoIdOrSkip(st, block) ==
  IF IsLikelyCueTiming(block[1])
  THEN CueParsed(ParseCueWithNoId(st, block))
  ELSE [st EXCEPT !.ret = TRUE]

\* ParseBlock, "CUE with no ID" and the failure to classify
ParseNoIdOrFail(st, block) ==
  IF IsLikelyCueTiming(block[1])
  THEN CueParsed(ParseCueWithNoId(st, block))
  ELSE [st EXCEPT !.ret = FALSE]

\* "CUE with no ID" taking up the block from its second line when the ID
\* attempt failed
ParseAfterIdRetries(st, block) ==
  IF st.ret THEN CueParsed(st) ELSE CueParsed(ParseCue(st, <<>>, Tail(block)))

\* "CUE with ID" returning true without saw_cue_ = true
ParseAfterIdNoFlag(st, block) ==
  IF st.ret THEN st ELSE ParseNoIdOrFail(st, block)

\* ParseBlock, after ParseCueWithId ran in "CUE with ID"
ParseAfterId(st, block) ==
  IF st.ret THEN CueParsed(st) ELSE ParseNoIdOrFail(st, block)

\* ParseBlock trying the cues before NOTE, STYLE and REGION
ParseBlockCueFirst(st, block) ==
  IF Len(block) >= 2 /\ MaybeCueId(block[1]) /\ IsLikelyCueTiming(block[2])
     /\ ParseCueWithId(st, block).ret
  THEN CueParsed(ParseCueWithId(st, block))
  ELSE IF IsLikelyNote(block[1]) THEN [st EXCEPT !.ret = TRUE]
  ELSE IF IsLikelyStyle(block[1]) THEN ParseStyleOrRegion(st, block)
  ELSE IF IsLikelyRegion(block[1]) THEN ParseStyleOrRegion(st, block)
  ELSE ParseNoIdOrFail(st, block)

\* ParseBlock taking any first line for a cue ID
ParseBlockAnyId(st, block) ==
  IF IsLikelyNote(block[1]) THEN [st EXCEPT !.ret = TRUE]
  ELSE IF IsLikelyStyle(block[1]) THEN ParseStyleOrRegion(st, block)
  ELSE IF IsLikelyRegion(block[1]) THEN ParseStyleOrRegion(st, block)
  ELSE IF Len(block) >= 2 /\ IsLikelyCueTiming(block[2])
  THEN ParseAfterId(ParseCueWithId(st, block), block)
  ELSE ParseNoIdOrFail(st, block)

\* WebVttParser::ParseBlock: the fields after the call, .ret its return value
ParseBlock(st, block) ==
  IF IsLikelyNote(block[1]) THEN [st EXCEPT !.ret = TRUE]
  ELSE IF IsLikelyStyle(block[1]) THEN ParseStyleOrRegion(st, block)
  ELSE IF IsLikelyRegion(block[1]) THEN ParseStyleOrRegion(st, block)
  ELSE IF Len(block) >= 2 /\ MaybeCueId(block[1]) /\ IsLikelyCueTiming(block[2])
  THEN ParseAfterId(ParseCueWithId(st, block), block)
  ELSE ParseNoIdOrFail(st, block)

\* the header test without its count of the lines
HeaderOkAnyLength(block) ==
  block[1] = kWebVtt \/ block[1] = kBomWebVtt

\* the header test of WebVttParser::Parse()
HeaderOk(block) ==
  /\ Len(block) = 1
  /\ (block[1] = kWebVtt \/ block[1] = kBomWebVtt)

\* the parser's fields once reader_.Next handed out r.block
Took(st, r) ==
  [st EXCEPT !.buffer = r.rest, !.lastBlocks = Append(@, r.block)]

\* the while loop of WebVttParser::Parse()
RECURSIVE ParseLoop(_)
ParseLoopAfter(st) == IF ~st.ret THEN st ELSE ParseLoop(st)

\* the loop taking "no block yet" for a failure
ParseLoopNextNoBlockFails(st, r) ==
  IF ~r.ok THEN [st EXCEPT !.ret = FALSE]
  ELSE ParseLoopAfter(ParseBlock(Took(st, r), r.block))

ParseLoopNext(st, r) ==
  IF ~r.ok THEN [st EXCEPT !.ret = TRUE]
  ELSE ParseLoopAfter(ParseBlock(Took(st, r), r.block))

ParseLoop(st) == ParseLoopNext(st, ReaderNext(st.buffer, st.flushed))

\* the header step taking "no block yet" for a failure
ParseHeaderNoBlockFails(st, r) ==
  IF ~r.ok THEN [st EXCEPT !.ret = FALSE]
  ELSE IF ~HeaderOk(r.block) THEN [Took(st, r) EXCEPT !.ret = FALSE]
  ELSE ParseLoop([Took(st, r) EXCEPT !.initialized_ = TRUE])

\* Parse() while !initialized_: the header block
ParseHeader(st, r) ==
  IF ~r.ok THEN [st EXCEPT !.ret = TRUE]
  ELSE IF ~HeaderOk(r.block) THEN [Took(st, r) EXCEPT !.ret = FALSE]
  ELSE ParseLoop([Took(st, r) EXCEPT !.initialized_ = TRUE])

\* Parse() checking for the header in every call
ParseAllAlwaysHeader(st) == ParseHeader(st, ReaderNext(st.buffer, st.flushed))

\* WebVttParser::Parse()
ParseAll(st) ==
  IF ~st.initialized_
  THEN ParseHeader(st, ReaderNext(st.buffer, st.flushed))
  ELSE ParseLoop(st)

\* WebVttParser::Parse(buf, size)
ParseBuf(st, buf) == ParseAll([st EXCEPT !.buffer = @ \o buf])

\* Flush() that marks the reader and does not parse
FlushAllNoParse(st) == [st EXCEPT !.flushed = TRUE, !.ret = TRUE]

\* WebVttParser::Flush()
FlushAll(st) == ParseAll([st EXCEPT !.flushed = TRUE])

-----------------------------------------------------------------------------
(* Input: the blocks a caller sends *)

Ts0 == <<"0", "0", ":", "0", "0", ".", "0", "0", "0">>
Ts1 == <<"0", "0", ":", "0", "1", ".", "0", "0", "0">>

TimingLine(from, to) == from \o <<SP>> \o kArrow \o <<SP>> \o to

bHeader == <<kWebVtt>>
bHeaderTwoLines == <<kWebVtt, kWebVtt>>
bBomHeader == <<kBomWebVtt>>
bNote == <<kNote>>
bNoteArrow == <<kNote \o <<SP>> \o kArrow, <<"n">>>>
bNoteTab == <<kNote \o <<TAB, "c">>, TimingLine(Ts0, Ts1)>>
bStyleTiming == <<kStyle \o <<TAB>>, TimingLine(Ts0, Ts1)>>
bStyle == <<kStyle, <<"s">>>>
bRegion == <<kRegion \o <<SP>>, TimingLine(Ts0, Ts1)>>
bCue == <<TimingLine(Ts0, Ts1), <<"a">>>>
bCueId == <<<<"i">>, TimingLine(Ts0, Ts1)>>
bCueFull == <<<<"j">>, TimingLine(Ts0, Ts1) \o <<SP, "s", SP, SP, "t">>, <<"a">>, <<"b">>>>
bTabCue == <<Ts0 \o <<TAB>> \o kArrow \o <<TAB>> \o Ts1, <<"a">>>>
bZero == <<TimingLine(Ts1, Ts1)>>
bBackwards == <<TimingLine(Ts1, Ts0), <<"b">>>>
bArrowId == <<kArrow, TimingLine(Ts0, Ts1)>>
bText == <<<<"x">>>>
bBadTime == <<Ts0 \o <<SP>> \o kArrow>>
bBadTimeId == <<<<"k">>, Ts0 \o <<SP>> \o kArrow>>

Menu == {bHeader, bBomHeader, bHeaderTwoLines, bNote, bNoteArrow, bNoteTab, bStyle,
         bStyleTiming, bRegion, bCue, bCueId, bCueFull, bTabCue, bZero, bBackwards,
         bArrowId, bText, bBadTime, bBadTimeId}

\* the blocks a caller pushes two of in one Parse call
PairMenu == {bHeader, bNote, bStyle, bRegion, bCue, bCueId, bZero, bText}

\* the bytes of a block: each line and its line feed, then a blank line
RECURSIVE LinesBytes(_)
LinesBytes(lines) ==
  IF lines = <<>> THEN <<>> ELSE lines[1] \o <<LF>> \o LinesBytes(Tail(lines))

BlockBytes(block) == LinesBytes(block) \o <<LF>>

\* the caller takes up no further block once this many emissions and config
\* blocks are recorded
MaxLog == 3

-----------------------------------------------------------------------------
(* History of the blocks delivered, kept beside the parser's own fields *)

\* a block, not a comment, STYLE or REGION block, whose timing line is valid
HasValidTiming(block) ==
  /\ ~IsLikelyNote(block[1])
  /\ TrimTrailing(block[1]) \notin {kStyle, kRegion}
  /\ \/ /\ Len(block) >= 2
        /\ ~Contains(block[1], kArrow)
        /\ Contains(block[2], kArrow)
        /\ ParsedTime(SplitString(block[2]))
     \/ /\ Contains(block[1], kArrow)
        /\ ParsedTime(SplitString(block[1]))

IsStyleOrRegion(block) ==
  /\ ~IsLikelyNote(block[1])
  /\ TrimTrailing(block[1]) \in {kStyle, kRegion}

\* the history after the blocks of one call; h = [styles, cue]
RECURSIVE HistoryAfter(_, _)
HistoryAfter(h, blocks) ==
  IF blocks = <<>> THEN h
  ELSE LET b == blocks[1]
           h1 == IF HasValidTiming(b) THEN [h EXCEPT !.cue = TRUE]
                 ELSE IF IsStyleOrRegion(b) /\ ~h.cue
                 THEN [h EXCEPT !.styles = Append(@, b)]
                 ELSE h
       IN  HistoryAfter(h1, Tail(blocks))

-----------------------------------------------------------------------------
(* Actions *)

Fields(rejectAt) ==
  [buffer |-> buffer, flushed |-> flushed, initialized_ |-> initialized_,
   saw_cue_ |-> saw_cue_, stream_info_dispatched_ |-> stream_info_dispatched_,
   style_region_config_ |-> style_region_config_, emitted |-> emitted,
   ret |-> TRUE, lastBlocks |-> <<>>, nsink |-> 0, rejectAt |-> rejectAt]

\* the state after a call that left the parser's fields as st
Becomes(st) ==
  /\ buffer' = st.buffer
  /\ flushed' = st.flushed
  /\ initialized_' = st.initialized_
  /\ saw_cue_' = st.saw_cue_
  /\ stream_info_dispatched_' = st.stream_info_dispatched_
  /\ style_region_config_' = st.style_region_config_
  /\ emitted' = st.emitted
  /\ ret' = st.ret
  /\ lastBlocks' = st.lastBlocks
  /\ \E h \in {HistoryAfter([styles |-> styleBlocks, cue |-> cueArrived],
                            IF initialized_ \/ st.lastBlocks = <<>>
                            THEN st.lastBlocks ELSE Tail(st.lastBlocks))} :
       /\ styleBlocks' = h.styles
       /\ cueArrived' = h.cue

\* what the sample sink may answer in a call that makes n sample-sink calls:
\* accept all of them (0), or reject the k-th
SinkAnswers(n) == 0..n

\* one call: Parse(buf, size) pushing buf, or Flush()
Run(op, buf, rejectAt) ==
  IF op = "Flush" THEN FlushAll(Fields(rejectAt)) ELSE ParseBuf(Fields(rejectAt), buf)

Call(op, buf) ==
  \E all \in {Run(op, buf, 0)} : \E k \in SinkAnswers(all.nsink) :
    \E st \in {IF k = 0 THEN all ELSE Run(op, buf, k)} : Becomes(st)

\* the blank lines in a byte sequence: one ends each block of the caller, one
\* separates two blocks in the config
BlankLines(bytes) == Cardinality({i \in 2..Len(bytes) : bytes[i - 1] = LF /\ bytes[i] = LF})

\* the blocks in style_region_config_
ConfigBlocks ==
  IF style_region_config_ = <<>> THEN 0 ELSE BlankLines(style_region_config_) + 1

\* the caller takes up the next block, or the next two, once the reader holds
\* nothing of the earlier ones
Choose ==
  /\ phase = "ready"
  /\ ~flushed /\ pending = <<>> /\ buffer = <<>>
  /\ Len(emitted) + ConfigBlocks < MaxLog
  /\ \/ \E b \in Menu : pending' = BlockBytes(b)
     \/ \E b1 \in PairMenu, b2 \in PairMenu : pending' = BlockBytes(b1) \o BlockBytes(b2)
  /\ lastBlocks' = <<>>
  /\ UNCHANGED <<buffer, flushed, initialized_, saw_cue_, stream_info_dispatched_,
                 style_region_config_, emitted, ret, doc, styleBlocks, cueArrived,
                 rejectNth, decryption_key_source, phase, timeVars, httpVars>>

\* the sizes of the chunk the caller may push next: a block goes in one chunk or in
\* two, split after its first byte or before its blank line; two blocks go in one
\* chunk
FeedSizes ==
  IF buffer = <<>> /\ BlankLines(pending) = 1
  THEN {1, Len(pending) - 1, Len(pending)} ELSE {Len(pending)}

\* bool WebVttParser::Parse(const uint8_t* buf, int size), size > 0
Feed ==
  /\ phase = "ready"
  /\ ~flushed /\ pending # <<>>
  /\ \E n \in FeedSizes :
       /\ Call("Parse", Take(pending, n))
       /\ pending' = Drop(pending, n)
  /\ UNCHANGED <<doc, rejectNth, decryption_key_source, phase, timeVars, httpVars>>

\* bool WebVttParser::Parse(const uint8_t* buf, int size), size = 0
FeedEmpty ==
  /\ phase = "ready"
  /\ ~flushed
  /\ Call("Parse", <<>>)
  /\ UNCHANGED <<pending, doc, rejectNth, decryption_key_source, phase, timeVars, httpVars>>

\* bool WebVttParser::Flush()
Finish ==
  /\ phase = "ready"
  /\ Call("Flush", <<>>)
  /\ UNCHANGED <<pending, doc, rejectNth, decryption_key_source, phase, timeVars, httpVars>>

Init ==
  /\ buffer = <<>>
  /\ flushed = FALSE
  /\ initialized_ = FALSE
  /\ saw_cue_ = FALSE
  /\ stream_info_dispatched_ = FALSE
  /\ style_region_config_ = <<>>
  /\ emitted = <<>>
  /\ ret = TRUE
  /\ lastBlocks = <<>>
  /\ pending = <<>>
  /\ doc = <<>>
  /\ styleBlocks = <<>>
  /\ cueArrived = FALSE
  /\ rejectNth = 0
  /\ decryption_key_source = FALSE
  /\ phase = "ready"
  /\ TimeIdle
  /\ HttpFile("w")

Next == Choose \/ Feed \/ FeedEmpty \/ Finish

Spec == Init /\ [][Next]_vars

-----------------------------------------------------------------------------
(* Runs whose caller passes a decryption key source to Init *)

\* void WebVttParser::Init(init_cb, new_media_sample_cb, new_text_sample_cb,
\* decryption_key_source): DCHECK(!decryption_key_source) ends the process in a
\* build with DCHECKs on and is no code in a build without them
ParserInit ==
  /\ phase = "constructed"
  /\ \E dcheck_is_on \in BOOLEAN :
       phase' = IF dcheck_is_on /\ decryption_key_source THEN "aborted" ELSE "ready"
  /\ UNCHANGED <<buffer, flushed, initialized_, saw_cue_, stream_info_dispatched_,
                 style_region_config_, emitted, ret, lastBlocks, pending, doc,
                 styleBlocks, cueArrived, rejectNth, decryption_key_source, timeVars, httpVars>>

\* WebVttParser::WebVttParser(), the caller holding a key source
InitKey ==
  /\ buffer = <<>>
  /\ flushed = FALSE
  /\ initialized_ = FALSE
  /\ saw_cue_ = FALSE
  /\ stream_info_dispatched_ = FALSE
  /\ style_region_config_ = <<>>
  /\ emitted = <<>>
  /\ ret = TRUE
  /\ lastBlocks = <<>>
  /\ pending = <<>>
  /\ doc = <<>>
  /\ styleBlocks = <<>>
  /\ cueArrived = FALSE
  /\ rejectNth = 0
  /\ decryption_key_source = TRUE
  /\ phase = "constructed"
  /\ TimeIdle
  /\ HttpFile("w")

NextKey == ParserInit \/ Choose \/ Feed \/ FeedEmpty \/ Finish

SpecKey == InitKey /\ [][NextKey]_vars

-----------------------------------------------------------------------------
(* Chunked runs: one document, cut into chunks by the caller, pushed in    *)
(* order and then finished; the caller stops at the first failure.         *)

\* the bytes of a block whose lines end in carriage return, line feed
RECURSIVE CrlfLinesBytes(_)
CrlfLinesBytes(lines) ==
  IF lines = <<>> THEN <<>> ELSE lines[1] \o <<CR, LF>> \o CrlfLinesBytes(Tail(lines))

CrlfBytes(block) == CrlfLinesBytes(block) \o <<CR, LF>>

\* the pieces documents are made of; <<LF>> is one more blank line
DocMenu == {BlockBytes(bHeader), BlockBytes(bCue), CrlfBytes(bCueId),
            BlockBytes(bText), <<LF>>}

\* most pieces in a document
MaxDocPieces == 3

\* largest chunk the caller pushes, short of pushing all that is left
MaxChunk == 2

RECURSIVE Flatten(_)
Flatten(pieces) == IF pieces = <<>> THEN <<>> ELSE pieces[1] \o Flatten(Tail(pieces))

\* a document ends with its last block's blank line, or without the last two bytes
Docs ==
  LET whole == UNION {{Flatten(ps) : ps \in [1..k -> DocMenu]} : k \in 1..MaxDocPieces}
  IN  whole \cup {Take(d, Len(d) - 2) : d \in {w \in whole : Len(w) > 2}}

SampleCount(log) == Len(SelectSeq(log, LAMBDA e : e.kind = "sample"))

\* the sink rejects its nth sample (0: none); so far it received those in log
RejectAtFor(nth, log) ==
  IF nth > SampleCount(log) THEN nth - SampleCount(log) ELSE 0

ChunkCall(op, buf) ==
  \E st \in {Run(op, buf, RejectAtFor(rejectNth, emitted))} : Becomes(st)

ChunkFeed ==
  /\ phase = "ready"
  /\ ret /\ ~flushed /\ pending # <<>>
  /\ \E n \in {k \in 1..MaxChunk : k <= Len(pending)} \cup {Len(pending)} :
       /\ ChunkCall("Parse", Take(pending, n))
       /\ pending' = Drop(pending, n)
  /\ UNCHANGED <<doc, rejectNth, decryption_key_source, phase, timeVars, httpVars>>

ChunkFinish ==
  /\ phase = "ready"
  /\ ret /\ ~flushed /\ pending = <<>>
  /\ ChunkCall("Flush", <<>>)
  /\ UNCHANGED <<pending, doc, rejectNth, decryption_key_source, phase, timeVars, httpVars>>

InitChunk ==
  /\ doc \in Docs
  /\ pending = doc
  /\ rejectNth \in {0, 1}
  /\ decryption_key_source = FALSE
  /\ phase = "ready"
  /\ TimeIdle
  /\ HttpFile("w")
  /\ buffer = <<>>
  /\ flushed = FALSE
  /\ initialized_ = FALSE
  /\ saw_cue_ = FALSE
  /\ stream_info_dispatched_ = FALSE
  /\ style_region_config_ = <<>>
  /\ emitted = <<>>
  /\ ret = TRUE
  /\ lastBlocks = <<>>
  /\ styleBlocks = <<>>
  /\ cueArrived = FALSE

NextChunk == ChunkFeed \/ ChunkFinish

SpecChunk == InitChunk /\ [][NextChunk]_vars

\* the fields of a parser just constructed, for a call whose sink rejects at rejectAt
FreshFields(rejectAt) ==
  [buffer |-> <<>>, flushed |-> FALSE, initialized_ |-> FALSE, saw_cue_ |-> FALSE,
   stream_info_dispatched_ |-> FALSE, style_region_config_ |-> <<>>,
   emitted |-> <<>>, ret |-> TRUE, lastBlocks |-> <<>>, nsink |-> 0,
   rejectAt |-> rejectAt]

\* the reference run, its second call: Flush(), unless Parse failed
WholeFinish(st, nth) ==
  IF ~st.ret THEN st
  ELSE FlushAll([st EXCEPT !.nsink = 0, !.rejectAt = RejectAtFor(nth, st.emitted),
                           !.lastBlocks = <<>>])

\* the reference run: the whole document in one Parse call, then Flush()
WholeRun(d, nth) == WholeFinish(ParseBuf(FreshFields(nth), d), nth)

ChunkDone == doc # <<>> /\ (~ret \/ (flushed /\ pending = <<>>))

-----------------------------------------------------------------------------
(* Properties *)

InfoCount(log) == Len(SelectSeq(log, LAMBDA e : e.kind = "info"))

\* a step that is a call of Parse(buf, size) or Flush(), not the caller taking up
\* new input
CallStep == ~(pending = <<>> /\ pending' # <<>>)

\* C1: over any sequence of Parse and Flush calls on one parser, the init callback
\* is run at most once, however many cue blocks are processed.
InitCbAtMostOnce == InfoCount(emitted) <= 1

\* C1's case: the init callback ran and two cues went to the sample sink
InitCbOnceTwoCues == InfoCount(emitted) = 1 /\ SampleCount(emitted) >= 2

\* C2: however a document's bytes are cut into chunks, pushing the chunks in order
\* and then flushing yields the same sequence of init and sample callbacks, with the
\* same values, as pushing the whole document in one Parse call and then flushing.
ChunkBoundaryIndependence ==
  ChunkDone => emitted = WholeRun(doc, rejectNth).emitted

\* C2's case: a document pushed in chunks and flushed, the flush taking its last
\* block, a sample emitted
ChunkedRunEmitted ==
  /\ ChunkDone /\ flushed /\ ret
  /\ SampleCount(emitted) >= 1
  /\ Len(lastBlocks) >= 1

\* C3, as claimed: once a Parse or Flush call has returned false, every later call
\* returns false.
FailureIsPermanent == [][~ret => ~ret']_vars

\* C4: the first block delivered to the parser is accepted (the parser becomes
\* initialized and the call goes on, returning true when no further block follows)
\* if and only if it is the one line "WEBVTT" or the byte order mark and "WEBVTT";
\* for any other first block the call returns false, the parser stays
\* uninitialized and nothing is emitted.
HeaderValidation ==
  [][CallStep /\ ~initialized_ /\ lastBlocks' # <<>> =>
       IF lastBlocks'[1] \in {<<kWebVtt>>, <<kBomWebVtt>>}
       THEN initialized_' /\ (Len(lastBlocks') = 1 => ret')
       ELSE ~ret' /\ ~initialized_' /\ emitted' = emitted]_vars

\* C4's case: a first block of two lines, each "WEBVTT", was turned down
HeaderTwoLinesRefused ==
  /\ lastBlocks = <<bHeaderTwoLines>>
  /\ ~initialized_ /\ ~ret /\ emitted = <<>>

\* C5: a Parse or Flush call that finds no complete block in the reader returns
\* true, emits nothing and leaves initialized_, saw_cue_, stream_info_dispatched_
\* and style_region_config_ as they were.
NoBlockNoChange ==
  [][CallStep /\ lastBlocks' = <<>> =>
       /\ ret'
       /\ emitted' = emitted
       /\ UNCHANGED <<initialized_, saw_cue_, stream_info_dispatched_,
                      style_region_config_>>]_vars

\* C5's case: Flush() on a parser that never received a header
FlushedWithoutHeader ==
  /\ flushed /\ lastBlocks = <<>> /\ buffer = <<>> /\ styleBlocks = <<>>
  /\ ~initialized_ /\ ret /\ emitted = <<>>

\* the blocks a call handed to ParseBlock: all it took, but for the header
Body == IF initialized_ THEN lastBlocks' ELSE Tail(lastBlocks')

Front(seq) == SubSeq(seq, 1, Len(seq) - 1)

\* the tokens of the timing line of a block with a valid one
TimingOf(block) ==
  SplitString(IF Contains(block[1], kArrow) THEN block[1] ELSE block[2])

\* a cue block that ends after it starts
PositiveCue(block) ==
  /\ HasValidTiming(block)
  /\ \E t \in {TimingOf(block)} : TimestampMs(t[3]) > TimestampMs(t[1])

\* a cue block that ends when or before it starts
DroppedCue(block) == HasValidTiming(block) /\ ~PositiveCue(block)

PositiveCues(blocks) == Cardinality({i \in DOMAIN blocks : PositiveCue(blocks[i])})

\* the callbacks run by the call of this step
NewEmissions == SubSeq(emitted', Len(emitted) + 1, Len(emitted'))

\* a cue block came before the last block of blocks
CueBeforeLast(blocks) == \E i \in 1..(Len(blocks) - 1) : HasValidTiming(blocks[i])

\* C6: a cue block whose timing line parses but whose end is not after its start
\* emits no sample, does not fail the call, sets saw_cue_ and has the stream info
\* dispatched, once; the cue blocks after it that end after they start are still
\* emitted.  So every sample handed to the sample sink ends after it starts.
ZeroDurationCueDropped ==
  [][/\ \A i \in DOMAIN emitted' :
          emitted'[i].kind = "sample" => emitted'[i].end > emitted'[i].start
     /\ CallStep /\ initialized_' /\ (\E i \in DOMAIN Body : DroppedCue(Body[i])) =>
          /\ saw_cue_' /\ stream_info_dispatched_' /\ InfoCount(emitted') = 1
          /\ SampleCount(NewEmissions) = PositiveCues(Body)
          /\ DroppedCue(Body[Len(Body)]) => ret']_vars

\* C6's case: a cue of no duration, then a cue, taken in one call: one stream info
\* and the one sample
ZeroThenCueEmitted ==
  /\ lastBlocks = <<bZero, bCue>>
  /\ ret /\ saw_cue_
  /\ Len(emitted) = 2 /\ emitted[1].kind = "info" /\ emitted[2].kind = "sample"

\* the text of blocks: the lines of each ended by a line feed but for the last,
\* a blank line between two blocks
RECURSIVE ConfigText(_)
ConfigText(blocks) ==
  IF blocks = <<>> THEN <<>>
  ELSE Front(LinesBytes(blocks[1]))
         \o (IF Len(blocks) = 1 THEN <<>> ELSE <<LF, LF>> \o ConfigText(Tail(blocks)))

\* C7: the config the init callback receives is the text of the STYLE and REGION
\* blocks that arrived before the first cue, in order of arrival, the lines of a
\* block joined by "\n" and the blocks by "\n\n"; empty when there was none.
ConfigIsStylesBeforeCue ==
  \A i \in DOMAIN emitted :
    emitted[i].kind = "info" => emitted[i].config = ConfigText(styleBlocks)

\* C7's case: a STYLE and a REGION block arrived, then a cue had the info dispatched
ConfigOfStyleAndRegion ==
  /\ InfoCount(emitted) = 1
  /\ styleBlocks = <<bStyle, bRegion>>

\* C8: once saw_cue_ is set, a STYLE or REGION block is dropped: the call that takes
\* only such blocks returns true, changes no field of the parser and emits nothing;
\* so style_region_config_ never changes once saw_cue_ is set, and what was
\* emitted stays as it was.
StyleAfterCueDropped ==
  [][/\ saw_cue_ => /\ style_region_config_' = style_region_config_
                    /\ SubSeq(emitted', 1, Len(emitted)) = emitted
     /\ (/\ CallStep /\ saw_cue_ /\ lastBlocks' # <<>>
         /\ \A i \in DOMAIN lastBlocks' : IsStyleOrRegion(lastBlocks'[i])) =>
           /\ ret'
           /\ emitted' = emitted
           /\ UNCHANGED <<initialized_, saw_cue_, stream_info_dispatched_,
                          style_region_config_>>]_vars

\* C8's case: a call took a STYLE and a REGION block after a cue
StyleTakenAfterCue ==
  /\ saw_cue_ /\ ret
  /\ lastBlocks = <<bStyle, bRegion>>
  /\ style_region_config_ = <<>>

\* C9: when the sample sink rejects a cue, the call returns false, the rejected
\* sample is the last thing the call emits and its block the last the call takes
\* from the reader, and saw_cue_ is not set by that block.
SinkRejectionFatal ==
  [][(/\ CallStep
      /\ \E i \in DOMAIN NewEmissions : ~NewEmissions[i].accepted) =>
        /\ ~ret'
        /\ \A i \in DOMAIN NewEmissions :
             ~NewEmissions[i].accepted => i = Len(NewEmissions)
        /\ PositiveCue(Body[Len(Body)])
        /\ SampleCount(NewEmissions) = PositiveCues(Body)
        /\ saw_cue_' => saw_cue_ \/ CueBeforeLast(Body)]_vars

\* C9's case: the sink rejected the first cue of a call; the cue pushed with it is
\* still in the reader
RejectedWithBlockLeft ==
  /\ ~ret /\ ~saw_cue_
  /\ lastBlocks = <<bCue>>
  /\ emitted # <<>> /\ ~emitted[Len(emitted)].accepted
  /\ ReaderNext(buffer, flushed).ok

\* a block whose first line holds "-->" and is no valid timing line
ArrowNotTiming(block) ==
  /\ Contains(block[1], kArrow)
  /\ ~ParsedTime(SplitString(block[1]))

\* C10, as claimed: a block whose first line holds "-->" but is no valid timing
\* line fails the call that takes it.
ArrowBlockAlwaysFails ==
  [][CallStep /\ initialized_' /\ Body # <<>> /\ ArrowNotTiming(Body[Len(Body)])
       => ~ret']_vars

\* C10, amended: a block that is no comment and whose first line holds "-->" but is
\* no valid timing line is never taken for a cue with that line as ID, also when
\* its second line is a valid timing line: the call that takes it returns false,
\* takes no block after it, emits no sample for it and does not set saw_cue_ for
\* it; when it is Flush() that completes the block, the call before returned true.
ArrowBlockUnclassifiable ==
  [][(/\ CallStep /\ initialized_'
      /\ \E i \in DOMAIN Body : ArrowNotTiming(Body[i]) /\ ~IsLikelyNote(Body[i][1])) =>
        /\ ~ret'
        /\ ArrowNotTiming(Body[Len(Body)]) /\ ~IsLikelyNote(Body[Len(Body)][1])
        /\ SampleCount(NewEmissions) = PositiveCues(Front(Body))
        /\ saw_cue_' => saw_cue_ \/ CueBeforeLast(Body)
        /\ ~flushed /\ flushed' /\ ~ReaderNext(buffer, flushed).ok => ret]_vars

\* C10's case: the block "-->" over a valid timing line, pushed without its blank
\* line, failed in Flush()
ArrowIdFailedAtFlush ==
  /\ flushed /\ ~ret
  /\ lastBlocks = <<bArrowId>>
  /\ pending # <<>>
  /\ SampleCount(emitted) = 0

\* C11: lines not yet followed by a blank line are not classified by Parse: the call
\* takes no block, emits nothing and does not fail; Flush() hands exactly those
\* lines to classification as one last block, so a last cue without its blank line
\* is emitted during Flush().
FlushForcesLastBlock ==
  [][/\ (CallStep /\ pending' # pending /\ pending' # <<>>) =>
          /\ lastBlocks' = <<>> /\ ret'
          /\ emitted' = emitted
          /\ buffer' = buffer \o SubSeq(pending, 1, Len(pending) - Len(pending'))
     /\ (/\ CallStep /\ ~flushed /\ flushed'
         /\ buffer # <<>> /\ ~ReaderNext(buffer, FALSE).ok) =>
          /\ Len(lastBlocks') = 1
          /\ buffer' = <<>>
          /\ LinesBytes(lastBlocks'[1]) \in {buffer, buffer \o <<LF>>}
          /\ initialized_ /\ PositiveCue(lastBlocks'[1]) =>
               /\ SampleCount(NewEmissions) = 1
               /\ emitted'[Len(emitted')].kind = "sample"]_vars

\* C11's case: a cue pushed without its blank line was emitted by Flush()
LastCueEmittedAtFlush ==
  /\ flushed /\ ret
  /\ lastBlocks = <<bCue>>
  /\ pending = <<LF>>
  /\ emitted[Len(emitted)].kind = "sample"

\* the first of blocks with a valid timing line
FirstTimed(blocks) ==
  CHOOSE i \in DOMAIN blocks :
    HasValidTiming(blocks[i]) /\ \A j \in 1..(i - 1) : ~HasValidTiming(blocks[j])

\* config, and after it the text of blocks
ConfigExtended(config, blocks) ==
  IF blocks = <<>> THEN config
  ELSE IF config = <<>> THEN ConfigText(blocks)
  ELSE config \o <<LF, LF>> \o ConfigText(blocks)

\* the init callback of this step carries the config as it is when the block at
\* index i of the call is reached
InfoCarriesConfigAt(i) ==
  /\ NewEmissions[1].kind = "info"
  /\ NewEmissions[1].config =
       ConfigExtended(style_region_config_,
                      SelectSeq(SubSeq(Body, 1, i - 1), IsStyleOrRegion))

\* C12: the stream info is dispatched exactly when the first block whose timing
\* line parses is processed, whether or not a sample is emitted for it, with
\* style_region_config_ as it is at that moment; while only the header, comments
\* and STYLE or REGION blocks have arrived nothing is dispatched, also not by Flush().
DispatchAtFirstTiming ==
  [][CallStep =>
       /\ ~cueArrived' => InfoCount(emitted') = 0
       /\ InfoCount(emitted') > InfoCount(emitted) <=>
            /\ ~stream_info_dispatched_ /\ initialized_'
            /\ \E i \in DOMAIN Body : HasValidTiming(Body[i])
       /\ InfoCount(emitted') > InfoCount(emitted) =>
            InfoCarriesConfigAt(FirstTimed(Body))]_vars

\* C12's case: a STYLE block and a cue of no duration taken in one call: the stream
\* info with the STYLE block as config, and no sample
DispatchedForZeroCue ==
  /\ lastBlocks = <<bStyle, bZero>>
  /\ Len(emitted) = 1 /\ emitted[1].kind = "info"
  /\ emitted[1].config = <<"S", "T", "Y", "L", "E", LF, "s">>

\* what the sample of a cue block is to carry: [stream, id, start, end, settings,
\* payload]
CueOf(block) ==
  LET withId == ~Contains(block[1], kArrow)
      tokens == TimingOf(block)
  IN  [stream |-> 0,
       id |-> IF withId THEN block[1] ELSE <<>>,
       start |-> TimestampMs(tokens[1]),
       end |-> TimestampMs(tokens[3]),
       settings |-> JoinString(SubSeq(tokens, 4, Len(tokens)), <<SP>>),
       payload |-> JoinString(SubSeq(block, IF withId THEN 3 ELSE 2, Len(block)),
                              <<LF>>)]

\* what a sample emission carries
Carried(e) ==
  [stream |-> e.stream, id |-> e.id, start |-> e.start, end |-> e.end,
   settings |-> e.settings, payload |-> e.payload]

\* C13: for a cue block with a valid timing line and end > start, the sample handed
\* to the sink, on stream 0, has the block's first line as id when the block is a
\* cue with ID and the empty id otherwise, the parsed start and end, the tokens of
\* the timing line after the end time joined by single spaces as settings, and the
\* lines after the timing line joined by "\n" as payload.
SampleCarriesCue ==
  [][(/\ CallStep /\ initialized_
      /\ Len(lastBlocks') = 1 /\ PositiveCue(lastBlocks'[1])) =>
        /\ emitted' # <<>>
        /\ emitted'[Len(emitted')].kind = "sample"
        /\ Carried(emitted'[Len(emitted')]) = CueOf(lastBlocks'[1])]_vars

\* C13's case: the cue "j" with two settings after two spaces and two payload lines
SampleOfFullCue ==
  /\ lastBlocks = <<bCueFull>>
  /\ emitted # <<>>
  /\ Carried(emitted[Len(emitted)]) =
       [stream |-> 0, id |-> <<"j">>, start |-> 0, end |-> 1000,
        settings |-> <<"s", SP, "t">>, payload |-> <<"a", LF, "b">>]

\* C14, as claimed: when a decryption key source is passed to Init, the parser does
\* not become usable and no later Parse call emits stream info or samples.
KeySourceRefused == decryption_key_source => emitted = <<>>

\* a first line of a comment block
NoteLine(line) ==
  \/ line = <<"N", "O", "T", "E">>
  \/ StartsWith(line, <<"N", "O", "T", "E", " ">>)
  \/ StartsWith(line, <<"N", "O", "T", "E", "\t">>)

\* a first line that is STYLE or REGION but for whitespace after it
StyleOrRegionLine(line) ==
  TrimTrailing(line) \in {<<"S", "T", "Y", "L", "E">>, <<"R", "E", "G", "I", "O", "N">>}

\* a block whose second line is a valid timing line
TimingSecond(block) == Len(block) >= 2 /\ ParsedTime(SplitString(block[2]))

\* C15: classification goes by strict precedence, comment, STYLE, REGION, cue with
\* ID, cue without ID, unclassifiable: a block whose first line is a NOTE line, or
\* STYLE or REGION but for trailing whitespace, is handled as comment, style or
\* region also when its second line is a valid timing line: it emits no sample,
\* dispatches no stream info and does not set saw_cue_.
PrecedenceOverCue ==
  [][(/\ CallStep /\ initialized_ /\ lastBlocks' # <<>>
      /\ \A i \in DOMAIN lastBlocks' :
           /\ NoteLine(lastBlocks'[i][1]) \/ StyleOrRegionLine(lastBlocks'[i][1])
           /\ TimingSecond(lastBlocks'[i])) =>
        /\ ret'
        /\ emitted' = emitted
        /\ UNCHANGED <<saw_cue_, stream_info_dispatched_>>
        /\ style_region_config_' =
             IF saw_cue_ THEN style_region_config_
             ELSE ConfigExtended(style_region_config_,
                                 SelectSeq(lastBlocks',
                                           LAMBDA b : StyleOrRegionLine(b[1])))]_vars

\* C15's case: the block "STYLE\t" over a valid timing line went to the config
StyleOverTimingTaken ==
  /\ lastBlocks = <<bStyleTiming>>
  /\ initialized_ /\ ret /\ ~saw_cue_ /\ emitted = <<>>
  /\ style_region_config_ = ConfigText(<<bStyleTiming>>)

\* the STYLE and REGION blocks among blocks
StylesAmong(blocks) == SelectSeq(blocks, LAMBDA b : StyleOrRegionLine(b[1]))

\* C16: a comment block, its first line "NOTE" or starting with "NOTE " or
\* "NOTE\t", is discarded whole: the call that takes only comments returns true,
\* emits nothing and leaves saw_cue_, stream_info_dispatched_ and
\* style_region_config_ as they were; a STYLE or REGION block after comments and
\* before the first cue still goes to the config, and the cues among comments are
\* all emitted.
CommentDiscarded ==
  [][/\ (/\ CallStep /\ initialized_ /\ lastBlocks' # <<>>
         /\ \A i \in DOMAIN lastBlocks' : NoteLine(lastBlocks'[i][1])) =>
          /\ ret'
          /\ emitted' = emitted
          /\ UNCHANGED <<initialized_, saw_cue_, stream_info_dispatched_,
                         style_region_config_>>
     /\ (/\ CallStep /\ initialized_
         /\ \E i \in DOMAIN lastBlocks' : NoteLine(lastBlocks'[i][1])) =>
          /\ SampleCount(NewEmissions) = PositiveCues(lastBlocks')
          /\ (~saw_cue_ /\ \A i \in DOMAIN lastBlocks' : ~HasValidTiming(lastBlocks'[i])) =>
               style_region_config_' =
                 ConfigExtended(style_region_config_, StylesAmong(lastBlocks'))]_vars

\* C16's case: a comment and a STYLE block taken in one call before any cue
StyleAfterCommentKept ==
  /\ lastBlocks = <<bNote, bStyle>>
  /\ ret /\ ~saw_cue_
  /\ style_region_config_ = ConfigText(<<bStyle>>)

\* the non-empty pieces of line between whitespace bytes
RECURSIVE WhitespaceTokens(_)
WhitespaceTokens(line) ==
  LET at == {i \in 1..Len(line) : line[i] \in WhitespaceASCII}
  IN  IF at = {} THEN (IF line = <<>> THEN <<>> ELSE <<line>>)
      ELSE LET i == CHOOSE k \in at : \A j \in at : k <= j
           IN  (IF i = 1 THEN <<>> ELSE <<Take(line, i - 1)>>)
                 \o WhitespaceTokens(Drop(line, i))

\* a timing line as the claim accepts it
WhitespaceTimingOk(line) ==
  \E t \in {WhitespaceTokens(line)} :
    /\ Len(t) >= 3
    /\ t[2] = <<"-", "-", ">">>
    /\ TimestampOk(t[1])
    /\ TimestampOk(t[3])

\* C17, as claimed: a timing line is accepted if and only if, split on whitespace
\* into non-empty tokens, it has at least 3 tokens, the second is "-->" and the
\* first and third are valid timestamps; a line whose fields are separated by tabs
\* is accepted.  (Accepted: the call taking the cue block returns true or hands a
\* sample to the sink.)
TimingSplitOnWhitespace ==
  [][(/\ CallStep /\ initialized_ /\ Len(lastBlocks') = 1
      /\ Contains(lastBlocks'[1][1], kArrow)
      /\ ~NoteLine(lastBlocks'[1][1])) =>
        (WhitespaceTimingOk(lastBlocks'[1][1]) <=> ret' \/ NewEmissions # <<>>)]_vars

\* a block that is no comment, STYLE or REGION block and has no valid timing line
\* where a cue has it
Unclassifiable(block) ==
  /\ ~NoteLine(block[1])
  /\ ~StyleOrRegionLine(block[1])
  /\ ~HasValidTiming(block)

\* C18: an unclassifiable block makes the call return false; neither stream info
\* nor a sample is emitted for it, and saw_cue_, stream_info_dispatched_ and
\* style_region_config_ stay as they were before the block.
UnclassifiableFails ==
  [][(/\ CallStep /\ initialized_'
      /\ \E i \in DOMAIN Body : Unclassifiable(Body[i])) =>
        /\ ~ret'
        /\ \A i \in DOMAIN Body : Unclassifiable(Body[i]) <=> i = Len(Body)
        /\ SampleCount(NewEmissions) = PositiveCues(Front(Body))
        /\ InfoCount(emitted') > InfoCount(emitted) => CueBeforeLast(Body)
        /\ saw_cue_' => saw_cue_ \/ CueBeforeLast(Body)
        /\ Len(Body) = 1 =>
             /\ emitted' = emitted
             /\ UNCHANGED <<saw_cue_, stream_info_dispatched_,
                            style_region_config_>>]_vars

\* C18's case: a cue block whose timing line lacks the end time failed its call
BadTimingFailed ==
  /\ lastBlocks = <<bBadTime>>
  /\ initialized_ /\ ~ret
  /\ emitted = <<>> /\ ~stream_info_dispatched_ /\ ~saw_cue_

\* what the samples of the cue blocks among blocks that end after they start are to
\* carry, in the order of the blocks
CuesOf(blocks) ==
  LET cues == SelectSeq(blocks, PositiveCue)
  IN  [i \in 1..Len(cues) |-> CueOf(cues[i])]

\* what the samples among the emissions log carry, in order
SamplesIn(log) ==
  LET samples == SelectSeq(log, LAMBDA e : e.kind = "sample")
  IN  [i \in 1..Len(samples) |-> Carried(samples[i])]

\* C19: samples are emitted in the order of the document, one for each cue block
\* with end > start: what a call hands to the sink is, in the order the blocks
\* arrived, the cue blocks it took that end after they start, whatever comment,
\* STYLE or REGION blocks lie between them, and it comes after all that was
\* emitted before.
SamplesInDocumentOrder ==
  [][(CallStep /\ initialized_') =>
        /\ SubSeq(emitted', 1, Len(emitted)) = emitted
        /\ SamplesIn(NewEmissions) = CuesOf(Body)]_vars

\* C19's case: the cue "i" and a cue without ID taken in one call after a sample
\* was emitted, emitted in that order
TwoCuesInOrder ==
  /\ lastBlocks = <<bCueId, bCue>>
  /\ ret
  /\ SampleCount(emitted) = 3
  /\ emitted[Len(emitted) - 1].id = <<"i">>
  /\ emitted[Len(emitted)].id = <<>> /\ emitted[Len(emitted)].payload = <<"a">>

\* C20: initialized_, saw_cue_ and stream_info_dispatched_ never go back to false
\* under any sequence of Parse and Flush calls; the header is checked only while
\* initialized_ is false, so a block "WEBVTT" after a validated header is an
\* ordinary block: not a header again, it fails its call as the last block taken.
FlagsMonotonic ==
  [][/\ initialized_ => initialized_'
     /\ saw_cue_ => saw_cue_'
     /\ stream_info_dispatched_ => stream_info_dispatched_'
     /\ (/\ CallStep /\ initialized_'
         /\ \E i \in DOMAIN Body : Body[i] \in {<<kWebVtt>>, <<kBomWebVtt>>}) =>
          /\ ~ret'
          /\ Body[Len(Body)] \in {<<kWebVtt>>, <<kBomWebVtt>>}
          /\ \A i \in 1..(Len(Body) - 1) : Body[i] \notin {<<kWebVtt>>, <<kBomWebVtt>>}
          /\ emitted' = emitted \/ CueBeforeLast(Body)]_vars

\* C20's case: two blocks "WEBVTT" taken in one call, the first as the header
SecondHeaderFailed ==
  /\ lastBlocks = <<bHeader, bHeader>>
  /\ initialized_ /\ ~ret
  /\ emitted = <<>>

-----------------------------------------------------------------------------
(* Timestamp tokens on their own *)

MaxHourDigits == 4

Rep(c, k) == [i \in 1..k |-> c]

\* hour fields of 1..MaxHourDigits digits, one that is no number, and none
HourFields ==
  UNION {{Rep("0", k), <<"1">> \o Rep("0", k - 1), Rep("0", k - 1) \o <<"1">>,
          Rep("9", k)} : k \in 1..MaxHourDigits}
    \cup {<<"0", "x">>}

MinuteFields ==
  {<<"0", "0">>, <<"0", "1">>, <<"5", "9">>, <<"6", "0">>, <<"9", "9">>,
   <<"5">>, <<"0", "x">>}

MilliFields ==
  {<<"0", "0", "0">>, <<"0", "0", "1">>, <<"9", "9", "9">>, <<"0", "0">>,
   <<"0", "0", "0", "0">>, <<"0", "x", "0">>}

TimeTokens ==
  {m \o <<":">> \o s \o d \o f :
     m \in MinuteFields \cup {h \o <<":">> \o mm : h \in HourFields, mm \in MinuteFields},
     s \in MinuteFields, d \in {<<".">>, <<",">>}, f \in MilliFields}

InitTime ==
  /\ time_token \in TimeTokens
  /\ time_ms = NoTime
  /\ HttpFile("w")
  /\ buffer = <<>>
  /\ flushed = FALSE
  /\ initialized_ = FALSE
  /\ saw_cue_ = FALSE
  /\ stream_info_dispatched_ = FALSE
  /\ style_region_config_ = <<>>
  /\ emitted = <<>>
  /\ ret = TRUE
  /\ lastBlocks = <<>>
  /\ pending = <<>>
  /\ doc = <<>>
  /\ styleBlocks = <<>>
  /\ cueArrived = FALSE
  /\ rejectNth = 0
  /\ decryption_key_source = FALSE
  /\ phase = "ready"

\* parsed_time: WebVttTimestampToMs(time_begin_end[0], &start_time)
Convert ==
  /\ time_ms = NoTime
  /\ time_ms' = WebVttTimestampToMs(time_token)
  /\ UNCHANGED <<time_token, parserVars, httpVars>>

NextTime == Convert

SpecTime == InitTime /\ [][NextTime]_vars

\* the shape [HH:]MM:SS.mmm read from the left: fields between the colons,
\* the last one cut at its dot
ColonFields(t) == SplitOn(t, ":")

LastCut(t) == SplitOn(ColonFields(t)[Len(ColonFields(t))], ".")

Sixtieth(f) == Len(f) = 2 /\ AllDigits(f) /\ DecimalValue(f) <= 59

ShapeOk(t) ==
  LET c == ColonFields(t)
      n == Len(c)
  IN  /\ n \in {2, 3}
      /\ Len(LastCut(t)) = 2
      /\ Sixtieth(LastCut(t)[1])
      /\ Len(LastCut(t)[2]) = 3 /\ AllDigits(LastCut(t)[2])
      /\ Sixtieth(c[n - 1])
      /\ n = 3 => Len(c[1]) >= 2 /\ AllDigits(c[1])

\* (HH*60+MM)*60+SS of a token of that shape
ShapeSeconds(t) ==
  LET c == ColonFields(t)
      n == Len(c)
      hh == IF n = 3 THEN DecimalValue(c[1]) ELSE 0
  IN  (hh * 60 + DecimalValue(c[n - 1])) * 60 + DecimalValue(LastCut(t)[1])

ShapeMillis(t) == DecimalValue(LastCut(t)[2])

\* the whole seconds and the milliseconds held in a two-limb value:
\* hi * 65536 + lo = 1000 * (65 * hi) + (536 * hi + lo)
SecondsIn(v) == 65 * v.hi + (536 * v.hi + v.lo) \div 1000

MillisIn(v) == (536 * v.hi + v.lo) % 1000

\* seconds * 1000 + millis < 2^32 = 4294967 * 1000 + 296
Below2To32(seconds, millis) ==
  seconds < 4294967 \/ (seconds = 4294967 /\ millis < 296)

\* C21: a token is accepted exactly when it has the shape [HH:]MM:SS.mmm (HH
\* of two or more digits, MM and SS two digits up to 59, mmm three digits), and
\* an accepted token below 2^32 ms converts to ((HH*60+MM)*60+SS)*1000+mmm
\* without wrapping; 00:01:00.000 is 60000 and 01:00:00.000 is 3600000
TimestampConversion ==
  time_ms # NoTime =>
    /\ time_ms.ok = ShapeOk(time_token)
    /\ time_ms.ok /\ Below2To32(ShapeSeconds(time_token), ShapeMillis(time_token)) =>
         /\ SecondsIn(time_ms) = ShapeSeconds(time_token)
         /\ MillisIn(time_ms) = ShapeMillis(time_token)
         /\ time_ms.hi < Limb
    /\ time_ms.ok /\ time_ms.hi < 2^15 =>
         time_ms.hi * Limb + time_ms.lo = TimestampMs(time_token)
    /\ time_token = <<"0", "0", ":", "0", "1", ":", "0", "0", ".", "0", "0", "0">> =>
         time_ms = [ok |-> TRUE, hi |-> 0, lo |-> 60000]
    /\ time_token = <<"0", "1", ":", "0", "0", ":", "0", "0", ".", "0", "0", "0">> =>
         time_ms = [ok |-> TRUE, hi |-> 3600000 \div Limb, lo |-> 3600000 % Limb]

\* 1000:00:00.000 is 3600000000 ms, between 2^31 and 2^32
ThousandHoursConverted ==
  /\ time_token = <<"1", "0", "0", "0", ":", "0", "0", ":", "0", "0", ".", "0", "0", "0">>
  /\ time_ms.ok
  /\ time_ms.hi >= 2^15
  /\ SecondsIn(time_ms) = 3600000

\* C22: the stream info is dispatched before the first sample is emitted: every
\* sample the sink has received comes after the dispatch among the callbacks run,
\* and no sample has reached the sink while stream_info_dispatched_ is false.
MetadataBeforeSamples ==
  \A i \in DOMAIN emitted :
    emitted[i].kind = "sample" =>
      /\ stream_info_dispatched_
      /\ \E j \in 1..(i - 1) : emitted[j].kind = "info"

\* C22's case: the header and the first cue taken in one call, the dispatch and
\* the sample both run by it
InfoThenSampleInOneCall ==
  /\ lastBlocks = <<bHeader, bCue>>
  /\ Len(emitted) = 2
  /\ emitted[1].kind = "info" /\ emitted[2].kind = "sample"

\* C23: a call that returns success keeps stream_info_dispatched_ equal to
\* saw_cue_ (they start equal, so they are equal as long as every call returned
\* success); they come apart only in a call that returns failure, and then the
\* stream info is dispatched, no cue is marked as seen and every sample the sink
\* has received it has rejected.
DispatchedIffSawCue ==
  [][CallStep =>
       /\ (stream_info_dispatched_ = saw_cue_ /\ ret') =>
            stream_info_dispatched_' = saw_cue_'
       /\ (stream_info_dispatched_ = saw_cue_ /\ stream_info_dispatched_' # saw_cue_') =>
            ~ret' /\ ~emitted'[Len(emitted')].accepted
       /\ stream_info_dispatched_' # saw_cue_' =>
            /\ stream_info_dispatched_' /\ ~saw_cue_'
            /\ SampleCount(emitted') >= 1
            /\ \A i \in DOMAIN emitted' :
                 emitted'[i].kind = "sample" => ~emitted'[i].accepted]_vars

\* C23's case: the sink rejected the first cue, one with an ID; the stream info
\* is dispatched and no cue is marked as seen
FirstCueRejected ==
  /\ stream_info_dispatched_ /\ ~saw_cue_ /\ ~ret
  /\ lastBlocks = <<bCueId>>
  /\ SampleCount(emitted) = 1
  /\ ~emitted[Len(emitted)].accepted

\* a block that enters "CUE with ID": ParseCueWithId is run on it
EntersCueWithId(block) ==
  /\ ~IsLikelyNote(block[1]) /\ ~IsLikelyStyle(block[1]) /\ ~IsLikelyRegion(block[1])
  /\ Len(block) >= 2 /\ MaybeCueId(block[1]) /\ IsLikelyCueTiming(block[2])

\* C24: one block runs the sample callback at most once.  No first line passes
\* both MaybeCueId and IsLikelyCueTiming, so a call hands the sink no more
\* samples than it took blocks, and when the last block it took entered "CUE
\* with ID" and the call failed (its timing did not parse, or the sink rejected
\* its sample) the samples of the call are one for each cue block that ends
\* after it starts: the failed block was not parsed or emitted a second time.
OneSampleForEachBlock ==
  [][(CallStep /\ initialized_') =>
       /\ \A i \in DOMAIN Body :
            ~(MaybeCueId(Body[i][1]) /\ IsLikelyCueTiming(Body[i][1]))
       /\ SampleCount(NewEmissions) <= Len(Body)
       /\ (Body # <<>> /\ EntersCueWithId(Body[Len(Body)]) /\ ~ret') =>
            /\ SampleCount(NewEmissions) = PositiveCues(Body)
            /\ PositiveCue(Body[Len(Body)]) => ~emitted'[Len(emitted')].accepted
            /\ ~PositiveCue(Body[Len(Body)]) => ~ParsedTime(SplitString(Body[Len(Body)][2]))]_vars

\* C24's case: a cue and a cue with an ID taken in one call; the sink accepted
\* the first and rejected the second, which it received once
IdCueRejectedOnce ==
  /\ lastBlocks = <<bCue, bCueId>>
  /\ ~ret
  /\ SampleCount(emitted) = 2
  /\ emitted[Len(emitted)].id = <<"i">> /\ ~emitted[Len(emitted)].accepted
  /\ emitted[Len(emitted) - 1].accepted

-----------------------------------------------------------------------------
(* HttpFile: the thread that owns the file and the worker-pool task of Open *)

Modes == {"r", "w", "a"}

\* the bytes cache_ holds before Write waits
MaxCache == 2

InitHttp ==
  /\ \E mode \in Modes : HttpFile(mode)
  /\ TimeIdle
  /\ buffer = <<>>
  /\ flushed = FALSE
  /\ initialized_ = FALSE
  /\ saw_cue_ = FALSE
  /\ stream_info_dispatched_ = FALSE
  /\ style_region_config_ = <<>>
  /\ emitted = <<>>
  /\ ret = TRUE
  /\ lastBlocks = <<>>
  /\ pending = <<>>
  /\ doc = <<>>
  /\ styleBlocks = <<>>
  /\ cueArrived = FALSE
  /\ rejectNth = 0
  /\ decryption_key_source = FALSE
  /\ phase = "ready"

\* HttpFile::Open without task_exit_event_.Signal() for mode "r"
OpenNoSignal ==
  /\ caller = "constructed" /\ alive
  /\ caller' = "opened"
  /\ IF file_mode_ = "r"
     THEN /\ open_ret' = "false"
          /\ UNCHANGED <<task, task_exit_event_>>
     ELSE /\ task' = "posted"
          /\ open_ret' = "true"
          /\ UNCHANGED task_exit_event_
  /\ UNCHANGED <<file_mode_, cache_, alive, put_requests, used_after_delete,
                 parserVars, timeVars>>

\* HttpFile::Open
Open ==
  /\ caller = "constructed" /\ alive
  /\ caller' = "opened"
  /\ IF file_mode_ = "r"
     THEN /\ task_exit_event_' = TRUE
          /\ open_ret' = "false"
          /\ UNCHANGED task
     ELSE /\ task' = "posted"
          /\ open_ret' = "true"
          /\ UNCHANGED task_exit_event_
  /\ UNCHANGED <<file_mode_, cache_, alive, put_requests, used_after_delete,
                 parserVars, timeVars>>

\* HttpFile::Write: cache_.Write(buffer, length), which waits for room
Write ==
  /\ caller = "opened" /\ alive
  /\ ~cache_.closed /\ cache_.bytes < MaxCache
  /\ cache_' = [cache_ EXCEPT !.bytes = @ + 1]
  /\ UNCHANGED <<file_mode_, task_exit_event_, caller, task, alive, open_ret,
                 put_requests, used_after_delete, parserVars, timeVars>>

\* HttpFile::Delete(): Request(DELETE, &response_body_) up to curl_easy_perform,
\* on the caller's thread
Delete ==
  /\ caller = "opened" /\ alive
  /\ caller' = "deleting"
  /\ UNCHANGED <<file_mode_, task_exit_event_, cache_, task, alive, open_ret,
                 put_requests, used_after_delete, parserVars, timeVars>>

\* Request(DELETE) from curl_easy_perform on: task_exit_event_.Signal(), return
DeleteDone ==
  /\ caller = "deleting"
  /\ task_exit_event_' = TRUE
  /\ caller' = "opened"
  /\ UNCHANGED <<file_mode_, cache_, task, alive, open_ret, put_requests,
                 used_after_delete, parserVars, timeVars>>

\* HttpFile::Close up to task_exit_event_.Wait(): cache_.Close()
Close ==
  /\ caller = "opened" /\ alive
  /\ cache_' = [cache_ EXCEPT !.closed = TRUE]
  /\ caller' = "waiting"
  /\ UNCHANGED <<file_mode_, task_exit_event_, task, alive, open_ret,
                 put_requests, used_after_delete, parserVars, timeVars>>

\* HttpFile::Close from the return of task_exit_event_.Wait() (which resets the
\* event: ResetPolicy::AUTOMATIC) on: delete this
CloseWake ==
  /\ caller = "waiting" /\ task_exit_event_
  /\ task_exit_event_' = FALSE
  /\ alive' = FALSE
  /\ caller' = "closed"
  /\ UNCHANGED <<file_mode_, cache_, task, open_ret, put_requests,
                 used_after_delete, parserVars, timeVars>>

\* HttpFile::CurlPut on the worker thread: Request(PUT, &response_body_) up to
\* curl_easy_perform
CurlPut ==
  /\ task = "posted" /\ alive
  /\ task' = "performing"
  /\ put_requests' = put_requests + 1
  /\ UNCHANGED <<file_mode_, task_exit_event_, cache_, caller, alive, open_ret,
                 used_after_delete, parserVars, timeVars>>

\* read_callback: curl takes bytes out of cache_
ReadCallback ==
  /\ task = "performing" /\ alive
  /\ cache_.bytes > 0
  /\ cache_' = [cache_ EXCEPT !.bytes = @ - 1]
  /\ UNCHANGED <<file_mode_, task_exit_event_, caller, task, alive, open_ret,
                 put_requests, used_after_delete, parserVars, timeVars>>

\* Request(PUT) from the return of curl_easy_perform on: the transfer ended
\* because the closed cache ran empty, or it failed at any moment; either way
\* task_exit_event_.Signal()
RequestDone ==
  /\ task = "performing" /\ alive
  /\ \E res \in {"CURLE_OK", "failed"} :
       res = "CURLE_OK" => cache_.closed /\ cache_.bytes = 0
  /\ task_exit_event_' = TRUE
  /\ task' = "finished"
  /\ UNCHANGED <<file_mode_, cache_, caller, alive, open_ret, put_requests,
                 used_after_delete, parserVars, timeVars>>

\* the upload task runs on after delete this: it reads freed members; the
\* build may let it end as if nothing happened or crash the process
UseAfterDelete ==
  /\ task \in {"posted", "performing"} /\ ~alive
  /\ used_after_delete' = TRUE
  /\ task' \in {"finished", "crashed"}
  /\ UNCHANGED <<file_mode_, task_exit_event_, cache_, caller, alive, open_ret,
                 put_requests, parserVars, timeVars>>

NextHttp ==
  \/ Open \/ Write \/ Delete \/ DeleteDone \/ Close \/ CloseWake
  \/ CurlPut \/ ReadCallback \/ RequestDone \/ UseAfterDelete

SpecHttp == InitHttp /\ [][NextHttp]_vars

\* C25: Open on a file of mode "r" returns false, posts no task (no PUT request
\* is ever issued) and leaves task_exit_event_ signaled, so a Close that follows
\* finds its Wait released; Open on any other mode returns true and has posted
\* the one upload task.
OpenPostsTaskUnlessRead ==
  /\ open_ret = "false" =>
       file_mode_ = "r" /\ task = "none" /\ put_requests = 0
  /\ open_ret = "true" =>
       file_mode_ # "r" /\ task # "none" /\ put_requests <= 1
  /\ open_ret # "none" => (open_ret = "false") = (file_mode_ = "r")
  /\ (file_mode_ = "r" /\ caller = "waiting") => task_exit_event_

\* C25's case: a file of mode "r" was opened and closed
ReadModeClosed ==
  /\ file_mode_ = "r" /\ open_ret = "false"
  /\ caller = "closed" /\ ~alive
  /\ task = "none" /\ put_requests = 0

\* C26, as claimed: Close deletes the object only once the upload task of Open
\* has finished its request.
CloseWaitsForUpload ==
  [][(alive /\ ~alive') => task \in {"none", "finished"}]_vars

====
